---- MODULE Spec2Model ----
(***************************************************************************)
(* schema-fns: the pipeline executor (validationPipeline and its async     *)
(* twin), the schema combinator, and the key / items combinators of        *)
(* src/schema.js, with the leaf handlers the pipelines are driven with.    *)
(*                                                                         *)
(* JavaScript values are tagged tuples, so that values of different types  *)
(* can be compared: <<"undef">>, <<"num", n>>, <<"arr", seq>>,             *)
(* <<"obj", f>> with f a function from key names to values.  A path        *)
(* segment is <<"k", name>> (a key) or <<"i", index>> (a 0-based index).   *)
(*                                                                         *)
(* A handler is a tagged tuple too.  Invoking a handler yields the calls   *)
(* it makes on its update / error callbacks, in order: <<"update", v>> and *)
(* <<"error", code, context>>.  The caller's closures are then applied to  *)
(* those calls one by one, as the JavaScript closures would be.            *)
(***************************************************************************)
EXTENDS Integers, Sequences, FiniteSets, TLC

VARIABLES fns, construction, inv

vars == <<fns, construction, inv>>

---------------------------------------------------------------------------
(* Bounds of the model *)

MaxNum == 1
MaxLen == 2
NInv == 2

---------------------------------------------------------------------------
(* JavaScript values *)

Undef == <<"undef">>
Num(n) == <<"num", n>>
Arr(s) == <<"arr", s>>
Obj(f) == <<"obj", f>>

NoProps == [k \in {} |-> Undef]

IsUndef(v) == v[1] = "undef"
IsNum(v) == v[1] = "num"
IsArr(v) == v[1] = "arr"
IsObj(v) == v[1] = "obj"

\* Property names of array indices, as the object spread sees them.
IdxName == <<"0", "1", "2", "3", "4", "5", "6", "7", "8", "9">>

\* {...a, ...b}: b's properties override a's.
Spread(a, b) ==
  [k \in (DOMAIN a) \cup (DOMAIN b) |-> IF k \in DOMAIN b THEN b[k] ELSE a[k]]

\* The own enumerable properties {...value} copies: none for a primitive,
\* the index properties for an array.
OwnProps(value) ==
  CASE IsObj(value) -> value[2]
    [] IsArr(value) ->
         [k \in {IdxName[i] : i \in 1..Len(value[2])} |->
            value[2][CHOOSE i \in 1..Len(value[2]) : IdxName[i] = k]]
    [] OTHER -> NoProps

\* value[name] for a key name that is no array index: throws on undefined
\* (the caller tests IsUndef first), undefined when the property is absent.
GetProp(value, name) ==
  IF IsObj(value) /\ name \in DOMAIN value[2] THEN value[2][name] ELSE Undef

\* key in value, for a value that is not a primitive.
HasProp(value, name) == IsObj(value) /\ name \in DOMAIN value[2]

---------------------------------------------------------------------------
(* Calls a handler makes on its callbacks, and the outcome of invoking it. *)
(* calls: made before the handler returns; late: made by an async leaf     *)
(* on its own callbacks after it has suspended; fault: the handler threw   *)
(* after making its calls, and thrown is what it threw; orphans: calls     *)
(* made on the callbacks of a nested pipeline that had already returned    *)
(* when they were made; leaf: the error calls the leaf handlers made       *)
(* inside this handler, as they made them, in the order they made them.    *)

Update(v) == <<"update", v>>
Error(code, context) == <<"error", code, context>>

\* What a throw statement or a failing operation raises.
NoFault == <<"none">>
\* value[name] with value undefined: TypeError, cannot read properties.
ReadOfUndefined(name) == <<"TypeError", "read", name>>
\* key in value with value a primitive: TypeError, cannot use 'in'.
InOfPrimitive(key) == <<"TypeError", "in", key>>
\* throw new Error(msg) in a custom handler.
CustomError(msg) == <<"Error", "thrown", msg>>

Outcome(calls, late, fault, orphans) ==
  [calls |-> calls, late |-> late, fault |-> fault, orphans |-> orphans,
   thrown |-> NoFault, leaf |-> <<>>]

NoCalls == Outcome(<<>>, <<>>, FALSE, <<>>)
Throws(e) == [Outcome(<<>>, <<>>, TRUE, <<>>) EXCEPT !.thrown = e]

IsUpdateCall(c) == c[1] = "update"
IsErrorCall(c) == c[1] = "error"
ErrorCalls(calls) == SelectSeq(calls, IsErrorCall)
UpdateCalls(calls) == SelectSeq(calls, IsUpdateCall)

---------------------------------------------------------------------------
(* Leaf handlers *)

\* mapFn of a custom transform: numbers only, other values are passed on.
ApplyFn(f, value) ==
  CASE f = "succ" -> IF IsNum(value) THEN Num(value[2] + 1) ELSE value
    [] f = "dbl"  -> IF IsNum(value) THEN Num(2 * value[2]) ELSE value

\* One statement of a custom handler function (value, update, error):
\* update(f(value)), error(code, { message, value }), or
\* error(code, { value }) for <<"report", code>>.
OpCall(op, value) ==
  CASE op[1] = "update" -> Update(ApplyFn(op[2], value))
    [] op[1] = "error"  -> Error(op[2], [message |-> "custom check failed",
                                         value |-> value])
    [] op[1] = "report" -> Error(op[2], [value |-> value])

\* The statement <<"throw", msg>> is throw new Error(msg): the statements
\* after it are not run.
IsThrowOp(op) == op[1] = "throw"

RECURSIVE ScriptCalls(_, _)
ScriptCalls(ops, value) ==
  IF ops = <<>> \/ IsThrowOp(Head(ops)) THEN <<>>
  ELSE <<OpCall(Head(ops), value)>> \o ScriptCalls(Tail(ops), value)

ScriptThrown(ops) ==
  IF SelectSeq(ops, IsThrowOp) = <<>> THEN NoFault
  ELSE CustomError(Head(SelectSeq(ops, IsThrowOp))[2])

\* A custom handler <<"fn", mode, ops>>.  A sync one makes its calls before
\* it returns or throws; an async one suspends first and makes them when
\* resumed (the async bodies the model is driven with do not throw).
CustomFn(mode, ops, value) ==
  IF mode = "sync"
    THEN [Outcome(ScriptCalls(ops, value), <<>>, ScriptThrown(ops) # NoFault, <<>>)
            EXCEPT !.thrown = ScriptThrown(ops)]
    ELSE Outcome(<<>>, ScriptCalls(ops, value), FALSE, <<>>)

\* isType(type) for "number", "object", "array".
TypeTest(type, value) ==
  CASE type = "number" -> IsNum(value)
    [] type = "object" -> IsObj(value)
    [] type = "array"  -> IsArr(value)

IsTypeFn(type, value) ==
  IF TypeTest(type, value) THEN NoCalls
  ELSE Outcome(<<Error("is.type",
                       [message |-> "wrong type: expected " \o type,
                        expectedType |-> type,
                        value |-> value])>>, <<>>, FALSE, <<>>)

\* hasKeys(...keys): the in operator throws on a primitive.
RECURSIVE MissingKeyCalls(_, _)
MissingKeyCalls(keys, value) ==
  IF keys = <<>> THEN <<>>
  ELSE (IF HasProp(value, Head(keys)) THEN <<>>
        ELSE <<Error("key.missing",
                     [message |-> "expected key \"" \o Head(keys) \o "\" missing",
                      key |-> Head(keys),
                      value |-> value])>>)
       \o MissingKeyCalls(Tail(keys), value)

HasKeysFn(keys, value) ==
  IF keys # <<>> /\ (IsUndef(value) \/ IsNum(value))
    THEN Throws(InOfPrimitive(Head(keys)))
  ELSE Outcome(MissingKeyCalls(keys, value), <<>>, FALSE, <<>>)

---------------------------------------------------------------------------
(* The pipeline executor: validationPipeline / validationPipelineAsync *)

\* A path segment: a key name or a 0-based index.
KeySeg(name) == <<"k", name>>
IdxSeg(index) == <<"i", index>>

\* An errors accumulator shared by the invocations of the schema: a new
\* frame sees what a suspended invocation has collected.
NewFrameSharedErrors(input) ==
  [value |-> input,
   errors |-> IF \E j \in DOMAIN inv : inv[j].status = "awaiting"
                THEN inv[CHOOSE j \in DOMAIN inv : inv[j].status = "awaiting"].frame.errors
                ELSE <<>>,
   fault |-> FALSE, orphans |-> <<>>, thrown |-> NoFault, leaf |-> <<>>]

\* The frame of one execValidationPipeline call: const errors = [],
\* let value = input.
NewFrame(input) ==
  [value |-> input, errors |-> <<>>, fault |-> FALSE, orphans |-> <<>>,
   thrown |-> NoFault, leaf |-> <<>>]

\* An update that is dropped once an error has been reported.
PipelineUpdateUnlessErrors(frame, newValue) ==
  IF frame.errors # <<>> THEN frame ELSE [frame EXCEPT !.value = newValue]

\* function update(newValue) { value = newValue; }
PipelineUpdate(frame, newValue) == [frame EXCEPT !.value = newValue]

\* An error callback that leaves path to the handler's context.
PipelineErrorNoPath(frame, code, context) ==
  [frame EXCEPT !.errors = Append(@, Spread([code |-> code], context))]

\* function error(code, context): errors.push({ code, path: [], ...context })
PipelineError(frame, code, context) ==
  [frame EXCEPT
     !.errors = Append(@, Spread([code |-> code, path |-> <<>>], context))]

ApplyCall(frame, c) ==
  IF c[1] = "update" THEN PipelineUpdate(frame, c[2])
  ELSE PipelineError(frame, c[2], c[3])

RECURSIVE ApplyCalls(_, _)
ApplyCalls(frame, calls) ==
  IF calls = <<>> THEN frame
  ELSE ApplyCalls(ApplyCall(frame, Head(calls)), Tail(calls))

\* !Boolean(errors): an array is truthy whatever it holds.
ValidOfArray(errors) == FALSE

\* const valid = !Boolean(errors.length)
Valid(errors) == ~(Len(errors) # 0)

\* One iteration of the synchronous for loop: fn(value, update, error).
\* The handler's return value is dropped, so whatever an async handler does
\* after it has suspended reaches the frame only after the loop has moved on.
SyncStep(frame, out) ==
  [ApplyCalls(frame, out.calls) EXCEPT
     !.fault = out.fault,
     !.thrown = out.thrown,
     !.leaf = @ \o out.leaf,
     !.orphans = @ \o out.orphans \o out.late]

\* A loop that stops at the first handler that reported an error.
AdvanceBreakOnError(functions, frame, k) ==
  IF frame.errors # <<>> THEN Len(functions) + 1 ELSE k + 1

\* The for loop moves on to the next handler whatever the frame holds.
Advance(functions, frame, k) == k + 1

RECURSIVE Invoke(_, _)
RECURSIVE ExecFrom(_, _, _)
RECURSIVE ExecNext(_, _, _)

\* for (const fn of functions) fn(value, update, error), from handler k on.
ExecFrom(functions, k, frame) ==
  IF k > Len(functions) \/ frame.fault THEN frame
  ELSE ExecNext(functions, k, SyncStep(frame, Invoke(functions[k], frame.value)))

\* The loop after handler k has left the frame next.
ExecNext(functions, k, next) ==
  ExecFrom(functions, Advance(functions, next, k), next)

\* return { value, valid, errors }, or the fault that ended the loop.
PipelineResult(frame) ==
  [value |-> frame.value, valid |-> Valid(frame.errors),
   errors |-> frame.errors, fault |-> frame.fault,
   orphans |-> frame.orphans, thrown |-> frame.thrown,
   leaf |-> frame.leaf]

\* validationPipeline(...functions)(input): { value, valid, errors }, or a
\* fault when a handler threw.
ExecPipeline(functions, input) ==
  PipelineResult(ExecFrom(functions, 1, NewFrame(input)))

---------------------------------------------------------------------------
(* schema(...fns) used as a handler *)

\* Forwarding that leaves the path behind.
ForwardErrorWithoutPath(e) ==
  Error(e.code, [f \in (DOMAIN e) \ {"code", "path"} |-> e[f]])

\* const { code, ...context } = e; error(code, context)
ForwardError(e) == Error(e.code, [f \in (DOMAIN e) \ {"code"} |-> e[f]])

\* Forwarding that starts from the last error.
ForwardErrorsReversed(errors) ==
  [i \in 1..Len(errors) |-> ForwardError(errors[Len(errors) + 1 - i])]

ForwardErrors(errors) == [i \in 1..Len(errors) |-> ForwardError(errors[i])]

\* A handler that catches what its pipeline throws and reports it as a
\* validation error.
ForwardCatches(r) ==
  IF r.fault
    THEN [Outcome(<<Error("fault", [message |-> "handler threw"])>>,
                  <<>>, FALSE, r.orphans) EXCEPT !.leaf = r.leaf]
    ELSE [Outcome(ForwardErrors(r.errors) \o <<Update(r.value)>>,
                  <<>>, FALSE, r.orphans) EXCEPT !.leaf = r.leaf]

\* for (const e of errors) error(code, context); update(output): the calls
\* the handler makes once validate has returned r, none when it threw.
Forward(r) ==
  IF r.fault
    THEN [Outcome(<<>>, <<>>, TRUE, r.orphans) EXCEPT
            !.thrown = r.thrown, !.leaf = r.leaf]
    ELSE [Outcome(ForwardErrors(r.errors) \o <<Update(r.value)>>,
                  <<>>, FALSE, r.orphans) EXCEPT !.leaf = r.leaf]

\* handler(value, update, error): validate, forward the errors, then update.
SchemaHandler(sfns, value) == Forward(ExecPipeline(sfns, value))

---------------------------------------------------------------------------
(* key(name, ...fns) *)

\* A keyUpdate that forgets the spread of the outer value.
KeyUpdateOnlyKey(value, name, newKeyValue) ==
  Update(Obj([k \in {name} |-> newKeyValue]))

\* keyUpdate: update({ ...value, [name]: newKeyValue })
KeyUpdate(value, name, newKeyValue) ==
  Update(Obj(Spread(OwnProps(value), [k \in {name} |-> newKeyValue])))

\* A keyError that appends the key name to the path.
KeyErrorAppend(name, code, context) ==
  Error(code,
        Spread(context,
               [path |-> (IF "path" \in DOMAIN context THEN context.path ELSE <<>>)
                         \o <<KeySeg(name)>>]))

\* keyError: error(code, { ...context, path: [name].concat(context.path || []) })
KeyError(name, code, context) ==
  Error(code,
        Spread(context,
               [path |-> <<KeySeg(name)>> \o
                         (IF "path" \in DOMAIN context THEN context.path ELSE <<>>)]))

KeyCall(value, name, c) ==
  IF c[1] = "update" THEN KeyUpdate(value, name, c[2])
  ELSE KeyError(name, c[2], c[3])

\* The calls of keySchema, passed through keyUpdate / keyError.
KeyCalls(value, name, out) ==
  [Outcome([i \in 1..Len(out.calls) |-> KeyCall(value, name, out.calls[i])],
           <<>>, out.fault, out.orphans) EXCEPT
     !.thrown = out.thrown, !.leaf = out.leaf]

\* const input = value[name]; keySchema(input, keyUpdate, keyError)
KeyHandler(name, kfns, value) ==
  IF IsUndef(value) THEN Throws(ReadOfUndefined(name))
  ELSE KeyCalls(value, name, SchemaHandler(kfns, GetProp(value, name)))

---------------------------------------------------------------------------
(* items(...fns) *)

\* An itemUpdate that copies the items up to index only.
ItemUpdateTruncating(items, index, newItemValue) ==
  Arr(SubSeq(items[2], 1, index) \o <<newItemValue>>)

\* An itemUpdate that always writes the first slot.
ItemUpdateFirstSlot(items, index, newItemValue) ==
  Arr([items[2] EXCEPT ![1] = newItemValue])

\* itemUpdate: const newValue = [...items]; newValue[index] = newItemValue
ItemUpdate(items, index, newItemValue) ==
  Arr([items[2] EXCEPT ![index + 1] = newItemValue])

\* An itemError that runs after index++.
ItemErrorStaleIndex(index, code, context) ==
  Error(code,
        Spread(context,
               [path |-> <<IdxSeg(index + 1)>> \o
                         (IF "path" \in DOMAIN context THEN context.path ELSE <<>>)]))

\* itemError: error(code, { ...context, path: [index].concat(context.path || []) })
ItemError(index, code, context) ==
  Error(code,
        Spread(context,
               [path |-> <<IdxSeg(index)>> \o
                         (IF "path" \in DOMAIN context THEN context.path ELSE <<>>)]))

\* An itemUpdate without items = newValue: the next copy starts from the
\* array the handler was given.
RECURSIVE ItemCallsNoRebind(_, _, _, _)
ItemCallsNoRebind(items, index, calls, done) ==
  IF calls = <<>> THEN [items |-> items, calls |-> done]
  ELSE LET c == Head(calls)
       IN IF c[1] = "update"
            THEN ItemCallsNoRebind(items, index, Tail(calls),
                                   Append(done, Update(ItemUpdate(items, index, c[2]))))
            ELSE ItemCallsNoRebind(items, index, Tail(calls),
                                   Append(done, ItemError(index, c[2], c[3])))

\* The calls of one nested run, passed through itemUpdate / itemError; each
\* itemUpdate also rebinds items.
RECURSIVE ItemCalls(_, _, _, _)
ItemCalls(items, index, calls, done) ==
  IF calls = <<>> THEN [items |-> items, calls |-> done]
  ELSE LET c == Head(calls)
       IN IF c[1] = "update"
            THEN LET newValue == ItemUpdate(items, index, c[2])
                 IN ItemCalls(newValue, index, Tail(calls),
                              Append(done, Update(newValue)))
            ELSE ItemCalls(items, index, Tail(calls),
                           Append(done, ItemError(index, c[2], c[3])))

\* index < items.length: false when items has no length property.
InRange(items, index) == IsArr(items) /\ index < Len(items[2])

\* What the items handler has done once the run on one more item is over.
ItemsDone(acc, step, out) ==
  [Outcome(acc.calls \o step.calls, <<>>, out.fault,
           acc.orphans \o out.orphans) EXCEPT
     !.thrown = out.thrown, !.leaf = acc.leaf \o out.leaf]

RECURSIVE ItemsLoop(_, _, _, _)

\* index++ and the next turn of the loop, unless itemSchema threw.
ItemsNext(ifns, index, acc, step, out) ==
  IF out.fault THEN ItemsDone(acc, step, out)
  ELSE ItemsLoop(ifns, step.items, index + 1, ItemsDone(acc, step, out))

\* itemSchema(item, itemUpdate, itemError) has made the calls of out.
ItemsStep(ifns, items, index, acc, out) ==
  ItemsNext(ifns, index, acc, ItemCalls(items, index, out.calls, <<>>), out)

\* while (index < items.length) { itemSchema(items[index], ...); index++ }
ItemsLoop(ifns, items, index, acc) ==
  IF ~InRange(items, index) THEN acc
  ELSE ItemsStep(ifns, items, index, acc,
                 SchemaHandler(ifns, items[2][index + 1]))

ItemsHandler(ifns, value) ==
  IF IsUndef(value) THEN Throws(ReadOfUndefined("length"))
  ELSE ItemsLoop(ifns, value, 0, NoCalls)

---------------------------------------------------------------------------
(* Handlers as data, and their invocation fn(value, update, error) *)

Fn(mode, ops) == <<"fn", mode, ops>>
IsType(type) == <<"isType", type>>
HasKeys(keys) == <<"hasKeys", keys>>
Schema(sfns) == <<"schema", sfns>>
Key(name, kfns) == <<"key", name, kfns>>
Items(ifns) == <<"items", ifns>>

\* A leaf handler's own error calls are noted as it makes them.
Leaf(out) == [out EXCEPT !.leaf = ErrorCalls(out.calls \o out.late)]

Invoke(fn, value) ==
  CASE fn[1] = "fn"      -> Leaf(CustomFn(fn[2], fn[3], value))
    [] fn[1] = "isType"  -> Leaf(IsTypeFn(fn[2], value))
    [] fn[1] = "hasKeys" -> Leaf(HasKeysFn(fn[2], value))
    [] fn[1] = "schema"  -> SchemaHandler(fn[2], value)
    [] fn[1] = "key"     -> KeyHandler(fn[2], fn[3], value)
    [] fn[1] = "items"   -> ItemsHandler(fn[2], value)

---------------------------------------------------------------------------
(* The same handlers run on a heap.  Objects and arrays live in cells of   *)
(* the heap, a sequence; a value is a primitive or a reference             *)
(* <<"ref", a>> to cell a, and the properties and elements of a cell are   *)
(* such values.  Handing a value to a handler hands over the reference.    *)

Ref(a) == <<"ref", a>>
IsRef(v) == v[1] = "ref"

\* The object behind a reference: what typeof, in and value[name] look at.
View(heap, v) == IF IsRef(v) THEN heap[v[2]] ELSE v

\* A write that stores the new properties into the object that was to be
\* copied.
WriteInPlace(heap, v, cell) ==
  IF IsRef(v) THEN [heap |-> [heap EXCEPT ![v[2]] = cell], ref |-> v]
  ELSE [heap |-> Append(heap, cell), ref |-> Ref(Len(heap) + 1)]

\* const newValue = { ...value, [name]: x } or [...items] with one slot
\* assigned: cell is the new object, allocated beside the one copied.
FreshCopy(heap, v, cell) ==
  [heap |-> Append(heap, cell), ref |-> Ref(Len(heap) + 1)]

\* The elements of a set, in some order.
RECURSIVE SetSeq(_)
SetSeq(S) ==
  IF S = {} THEN <<>>
  ELSE <<CHOOSE k \in S : TRUE>> \o SetSeq(S \ {CHOOSE k \in S : TRUE})

\* The caller's value, built on the heap before the call.
RECURSIVE Load(_, _)
RECURSIVE LoadAll(_, _, _)

LoadAll(heap, elems, done) ==
  IF elems = <<>> THEN [heap |-> heap, vals |-> done]
  ELSE LoadAll(Load(heap, Head(elems)).heap, Tail(elems),
               Append(done, Load(heap, Head(elems)).ref))

StoreArr(loaded) ==
  [heap |-> Append(loaded.heap, Arr(loaded.vals)),
   ref |-> Ref(Len(loaded.heap) + 1)]

StoreObj(keys, loaded) ==
  [heap |-> Append(loaded.heap,
                   Obj([k \in {keys[n] : n \in 1..Len(keys)} |->
                          loaded.vals[CHOOSE n \in 1..Len(keys) : keys[n] = k]])),
   ref |-> Ref(Len(loaded.heap) + 1)]

Load(heap, value) ==
  CASE IsArr(value) -> StoreArr(LoadAll(heap, value[2], <<>>))
    [] IsObj(value) ->
         StoreObj(SetSeq(DOMAIN value[2]),
                  LoadAll(heap,
                          [n \in 1..Cardinality(DOMAIN value[2]) |->
                             value[2][SetSeq(DOMAIN value[2])[n]]], <<>>))
    [] OTHER -> [heap |-> heap, ref |-> value]

\* The value a caller sees when it looks through the reference.
RECURSIVE Deref(_, _)
Deref(heap, v) ==
  IF ~IsRef(v) THEN v
  ELSE IF IsArr(heap[v[2]])
    THEN Arr([n \in 1..Len(heap[v[2]][2]) |-> Deref(heap, heap[v[2]][2][n])])
    ELSE Obj([k \in DOMAIN heap[v[2]][2] |-> Deref(heap, heap[v[2]][2][k])])

\* The outcome of a handler together with the heap it left.
WithHeap(out, heap) ==
  [calls |-> out.calls, late |-> out.late, fault |-> out.fault,
   orphans |-> out.orphans, thrown |-> out.thrown, leaf |-> out.leaf,
   heap |-> heap]

\* error(code, { ..., value }): the context holds the value the handler got.
ValueIs(calls, v) == [n \in 1..Len(calls) |-> [calls[n] EXCEPT ![3].value = v]]

\* A leaf handler looks at the object behind the reference and writes
\* nothing to the heap.
HeapLeaf(heap, fn, v) ==
  CASE fn[1] = "fn"      -> WithHeap(Leaf(CustomFn(fn[2], fn[3], v)), heap)
    [] fn[1] = "isType"  ->
         WithHeap(Leaf([IsTypeFn(fn[2], View(heap, v)) EXCEPT
                          !.calls = ValueIs(@, v)]), heap)
    [] fn[1] = "hasKeys" ->
         WithHeap(Leaf([HasKeysFn(fn[2], View(heap, v)) EXCEPT
                          !.calls = ValueIs(@, v)]), heap)

RECURSIVE HeapInvoke(_, _, _)
RECURSIVE HeapExecFrom(_, _, _, _)

HeapExecNext(functions, k, frame, out) ==
  HeapExecFrom(functions, Advance(functions, SyncStep(frame, out), k),
               SyncStep(frame, out), out.heap)

\* for (const fn of functions) fn(value, update, error), from handler k on.
HeapExecFrom(functions, k, frame, heap) ==
  IF k > Len(functions) \/ frame.fault THEN [frame |-> frame, heap |-> heap]
  ELSE HeapExecNext(functions, k, frame,
                    HeapInvoke(heap, functions[k], frame.value))

HeapForward(run) == WithHeap(Forward(PipelineResult(run.frame)), run.heap)

\* handler(value, update, error) of schema(...sfns)
HeapSchemaHandler(heap, sfns, v) ==
  HeapForward(HeapExecFrom(sfns, 1, NewFrame(v), heap))

\* keyUpdate(newKeyValue): the new object, and update(newValue).
HeapKeyUpdate(heap, v, name, newKeyValue) ==
  FreshCopy(heap, v,
            Obj(Spread(OwnProps(View(heap, v)), [k \in {name} |-> newKeyValue])))

\* The calls of keySchema, passed through keyUpdate / keyError: out is what
\* keySchema did, calls the calls still to pass, done the calls passed on.
RECURSIVE HeapKeyCalls(_, _, _, _, _, _)
HeapKeyCalls(v, name, out, calls, heap, done) ==
  IF calls = <<>> THEN WithHeap([out EXCEPT !.calls = done], heap)
  ELSE IF Head(calls)[1] = "update"
    THEN HeapKeyCalls(v, name, out, Tail(calls),
                      HeapKeyUpdate(heap, v, name, Head(calls)[2]).heap,
                      Append(done,
                             Update(HeapKeyUpdate(heap, v, name, Head(calls)[2]).ref)))
    ELSE HeapKeyCalls(v, name, out, Tail(calls), heap,
                      Append(done, KeyError(name, Head(calls)[2], Head(calls)[3])))

HeapKeyPass(v, name, out) ==
  HeapKeyCalls(v, name, out, out.calls, out.heap, <<>>)

\* const input = value[name]; keySchema(input, keyUpdate, keyError)
HeapKeyHandler(heap, name, kfns, v) ==
  IF IsUndef(v) THEN WithHeap(Throws(ReadOfUndefined(name)), heap)
  ELSE HeapKeyPass(v, name,
                   HeapSchemaHandler(heap, kfns, GetProp(View(heap, v), name)))

\* itemUpdate(newItemValue): the new array, which update and items get.
HeapItemUpdate(heap, items, index, newItemValue) ==
  FreshCopy(heap, items, ItemUpdate(View(heap, items), index, newItemValue))

RECURSIVE HeapItemCalls(_, _, _, _, _)

\* The calls of one nested run, passed through itemUpdate / itemError.
HeapItemCalls(items, index, calls, heap, done) ==
  IF calls = <<>> THEN [items |-> items, heap |-> heap, calls |-> done]
  ELSE IF Head(calls)[1] = "update"
    THEN HeapItemCalls(HeapItemUpdate(heap, items, index, Head(calls)[2]).ref,
                       index, Tail(calls),
                       HeapItemUpdate(heap, items, index, Head(calls)[2]).heap,
                       Append(done,
                              Update(HeapItemUpdate(heap, items, index,
                                                    Head(calls)[2]).ref)))
    ELSE HeapItemCalls(items, index, Tail(calls), heap,
                       Append(done, ItemError(index, Head(calls)[2], Head(calls)[3])))

RECURSIVE HeapItemsLoop(_, _, _, _)

HeapItemsNext(ifns, index, acc, step, out) ==
  IF out.fault THEN WithHeap(ItemsDone(acc, step, out), step.heap)
  ELSE HeapItemsLoop(ifns, step.items, index + 1,
                     WithHeap(ItemsDone(acc, step, out), step.heap))

HeapItemsStep(ifns, items, index, acc, out) ==
  HeapItemsNext(ifns, index, acc,
                HeapItemCalls(items, index, out.calls, out.heap, <<>>), out)

\* while (index < items.length) { itemSchema(items[index], ...); index++ }
HeapItemsLoop(ifns, items, index, acc) ==
  IF ~InRange(View(acc.heap, items), index) THEN acc
  ELSE HeapItemsStep(ifns, items, index, acc,
                     HeapSchemaHandler(acc.heap, ifns,
                                       View(acc.heap, items)[2][index + 1]))

HeapItemsHandler(heap, ifns, v) ==
  IF IsUndef(v) THEN WithHeap(Throws(ReadOfUndefined("length")), heap)
  ELSE HeapItemsLoop(ifns, v, 0, WithHeap(NoCalls, heap))

HeapInvoke(heap, fn, v) ==
  CASE fn[1] = "schema" -> HeapSchemaHandler(heap, fn[2], v)
    [] fn[1] = "key"    -> HeapKeyHandler(heap, fn[2], fn[3], v)
    [] fn[1] = "items"  -> HeapItemsHandler(heap, fn[2], v)
    [] OTHER            -> HeapLeaf(heap, fn, v)

---------------------------------------------------------------------------
(* Construction: schema(...fns), key(name, ...fns), items(...fns).  The    *)
(* arguments of a call are evaluated, left to right, before the call.      *)

\* is.fn(fn): handlers are functions, JavaScript values such as 42 are not.
IsFn(x) == x[1] \in {"fn", "isType", "hasKeys", "schema", "key", "items"}

\* new TypeError("schema(): value with index ${index} is not a function"),
\* with error.value = fn; index counts the ...fns from 0.
NotAFunction(index, value) == <<"TypeError", "schema", index, value>>

\* A check that lets the first argument through unchecked.
CheckFnsSkipsFirst(steps) ==
  LET bad == {n \in 2..Len(steps) : ~IsFn(steps[n])}
  IN IF bad = {} THEN NoFault
     ELSE LET first == CHOOSE n \in bad : \A m \in bad : n <= m
          IN NotAFunction(first - 1, steps[first])

\* for (const [index, fn] of Object.entries(fns)) if (!is.fn(fn)) throw
CheckFns(steps) ==
  LET bad == {n \in 1..Len(steps) : ~IsFn(steps[n])}
  IN IF bad = {} THEN NoFault
     ELSE LET first == CHOOSE n \in bad : \A m \in bad : n <= m
          IN NotAFunction(first - 1, steps[first])

\* The ...fns a combinator call was written with.
StepsOf(x) ==
  CASE x[1] = "key" -> x[3]
    [] x[1] \in {"schema", "items"} -> x[2]
    [] OTHER -> <<>>

IsCombinator(x) == x[1] \in {"schema", "key", "items"}

\* Evaluating the expression x: what it throws, or NoFault.  key and items
\* call schema(...fns) as their first statement.
RECURSIVE Build(_)
Build(x) ==
  IF ~IsCombinator(x) THEN NoFault
  ELSE LET steps == StepsOf(x)
           failing == {n \in 1..Len(steps) : Build(steps[n]) # NoFault}
       IN IF failing # {}
            THEN Build(steps[CHOOSE n \in failing : \A m \in failing : n <= m])
            ELSE CheckFns(steps)

\* The construction has not run, or has returned the schema.
Pending == <<"pending">>
Built == <<"built">>

---------------------------------------------------------------------------
(* The schemas and inputs the model is driven with *)

ErrOp == <<"error", "custom">>
SuccOp == <<"update", "succ">>
DblOp == <<"update", "dbl">>
ReportOp == <<"report", "bare">>
ThrowOp == <<"throw", "boom">>

\* Custom handler bodies: every sequence of at most two statements.
Scripts ==
  LET Ops == {ErrOp, SuccOp, DblOp}
  IN {<<>>} \cup {<<a>> : a \in Ops} \cup {<<a, b>> : a \in Ops, b \in Ops}

Leaves ==
  {Fn("sync", ops) : ops \in Scripts}
    \cup {IsType("number"), IsType("object"), HasKeys(<<"a", "b">>)}
    \cup {Fn("sync", <<ReportOp>>), Fn("sync", <<ThrowOp>>),
          Fn("sync", <<ErrOp, ThrowOp>>)}

NestLeaves ==
  {Fn("sync", <<ErrOp>>), Fn("sync", <<SuccOp>>), Fn("sync", <<DblOp>>),
   IsType("number")}

SingleLists == {<<l>> : l \in NestLeaves}
PairLists == {<<l, m>> : l \in NestLeaves, m \in NestLeaves}
NestLists == {<<>>} \cup SingleLists \cup PairLists

Combinators ==
  {Key("a", L) : L \in NestLists}
    \cup {Items(L) : L \in NestLists}
    \cup {Schema(L) : L \in NestLists}
    \cup {Key("a", <<Key("b", L)>>) : L \in SingleLists}
    \cup {Key("a", <<Items(L)>>) : L \in SingleLists}
    \cup {Items(<<Key("a", L)>>) : L \in SingleLists}
    \cup {Items(<<Items(L)>>) : L \in SingleLists}
    \cup {Schema(<<Key("a", L)>>) : L \in SingleLists}
    \cup {Key("a", <<Fn("sync", <<ReportOp>>)>>),
          Key("a", <<Fn("sync", <<ErrOp, ThrowOp>>)>>),
          Items(<<HasKeys(<<"a", "b">>)>>)}

Handlers == Leaves \cup Combinators

\* The argument lists schema(...fns) is constructed with.
Schemas ==
  {<<>>}
    \cup {<<h>> : h \in Handlers}
    \cup {<<g, h>> : g \in NestLeaves, h \in Handlers}
    \cup {<<h, g>> : g \in NestLeaves, h \in Handlers}
    \cup {<<a, Schema(L), d>> : a \in NestLeaves, L \in PairLists, d \in NestLeaves}

Nums == {Num(n) : n \in 0..MaxNum}

\* Arrays whose neighbouring elements differ.
NumArrays ==
  {Arr([i \in 1..n |-> Num((i + d) % (MaxNum + 1))]) : n \in 0..MaxLen, d \in 0..MaxNum}

Objects ==
  {Obj(NoProps)}
    \cup {Obj([a |-> n]) : n \in Nums}
    \cup {Obj([b |-> n]) : n \in Nums}
    \cup {Obj([a |-> n, b |-> Num(MaxNum)]) : n \in Nums}

Inputs ==
  {Undef} \cup Nums \cup NumArrays \cup Objects
    \cup {Obj([a |-> Obj([b |-> n])]) : n \in Nums}
    \cup {Obj([a |-> v, b |-> Num(0)]) : v \in NumArrays}
    \cup {Arr(<<Obj([a |-> n, b |-> Num(0)])>>) : n \in Nums}
    \cup {Arr(<<v>>) : v \in NumArrays}
    \cup {Arr(<<n, Obj([a |-> n])>>) : n \in Nums}
    \cup {Arr(<<Obj([a |-> n]), n>>) : n \in Nums}

---------------------------------------------------------------------------
(* validationPipelineAsync: await fn(value, update, error) *)

\* The call part of the await: what the handler does before it returns.
AsyncStep(frame, out) ==
  [ApplyCalls(frame, out.calls) EXCEPT
     !.fault = out.fault,
     !.thrown = out.thrown,
     !.leaf = @ \o out.leaf,
     !.orphans = @ \o out.orphans]

\* The awaited promise settles: the calls the handler made while the
\* pipeline waited for it have reached the frame.
AwaitSettle(frame, pending) == ApplyCalls(frame, pending)

RECURSIVE ExecAsyncFrom(_, _, _)
ExecAsyncFrom(functions, k, frame) ==
  IF k > Len(functions) \/ frame.fault THEN frame
  ELSE LET out == Invoke(functions[k], frame.value)
           called == AsyncStep(frame, out)
           next == IF called.fault THEN called ELSE AwaitSettle(called, out.late)
       IN ExecAsyncFrom(functions, Advance(functions, next, k), next)

\* validationPipelineAsync(...functions)(input), run with nothing else going on.
ExecPipelineAsync(functions, input) ==
  LET frame == ExecAsyncFrom(functions, 1, NewFrame(input))
  IN [value |-> frame.value, valid |-> Valid(frame.errors),
      errors |-> frame.errors, fault |-> frame.fault,
      orphans |-> frame.orphans, thrown |-> frame.thrown,
      leaf |-> frame.leaf]

\* The same handler with every async custom function made synchronous.
RECURSIVE SyncVersion(_)
SyncVersion(fn) ==
  CASE fn[1] = "fn"     -> Fn("sync", fn[3])
    [] fn[1] = "schema" -> Schema([i \in 1..Len(fn[2]) |-> SyncVersion(fn[2][i])])
    [] fn[1] = "key"    -> Key(fn[2], [i \in 1..Len(fn[3]) |-> SyncVersion(fn[3][i])])
    [] fn[1] = "items"  -> Items([i \in 1..Len(fn[2]) |-> SyncVersion(fn[2][i])])
    [] OTHER -> fn

SyncVersions(functions) == [i \in 1..Len(functions) |-> SyncVersion(functions[i])]

\* Every handler of the list completes before it returns.
IsSync(functions) == SyncVersions(functions) = functions

---------------------------------------------------------------------------
(* The schemas and inputs of the asynchronous runs *)

AsyncLeaves ==
  {Fn("async", <<ErrOp>>), Fn("async", <<SuccOp>>), Fn("async", <<DblOp, ErrOp>>)}

AsyncSchemas ==
  {<<g>> : g \in AsyncLeaves}
    \cup {<<g, h>> : g \in AsyncLeaves, h \in AsyncLeaves}
    \cup {<<Key("a", <<g>>)>> : g \in AsyncLeaves}
    \cup {<<Items(<<g>>)>> : g \in AsyncLeaves}
    \cup {<<Schema(<<g>>)>> : g \in AsyncLeaves}
    \cup {<<g, Key("a", <<IsType("number")>>)>> : g \in AsyncLeaves}
    \cup {<<Fn("sync", <<SuccOp>>), Fn("sync", <<ErrOp>>)>>,
          <<Key("a", <<Fn("sync", <<DblOp>>)>>)>>,
          <<Items(<<IsType("object")>>)>>,
          <<HasKeys(<<"a", "b">>)>>}

AsyncInputs ==
  {Num(MaxNum), Obj([a |-> Num(MaxNum)]), Arr(<<Num(0), Num(MaxNum)>>)}

---------------------------------------------------------------------------
(* State: the handler list the schema was built from, and the frames of    *)
(* the validate / validateAsync invocations made on it.                    *)

Invocations == 1..NInv

\* The caller of the synchronous runs.
Caller == CHOOSE i \in Invocations : \A j \in Invocations : i <= j

NoResult == [value |-> Undef, valid |-> FALSE, errors |-> <<>>]

NoFrame ==
  [value |-> Undef, errors |-> <<>>, fault |-> FALSE, orphans |-> <<>>,
   thrown |-> NoFault, leaf |-> <<>>]

\* What an entry point has handed to its caller: nothing yet,
\* <<"return", x>> or <<"throw", e>>.
Nothing == <<"nothing">>
Returns(x) == <<"return", x>>
Raises(e) == <<"throw", e>>

Idle ==
  [status |-> "idle", entry |-> "validate", mode |-> "sync", input |-> Undef,
   frame |-> NoFrame, k |-> 0, pending |-> <<>>, log |-> <<>>,
   overlap |-> FALSE, result |-> NoResult, returned |-> Nothing,
   heap |-> <<>>, arg |-> Undef]

InFlight(j) == inv[j].status \in {"running", "awaiting"}

\* validate(input) / validateAsync(input) enters the pipeline function.
\* overlap notes that another invocation was in flight at that moment.
Start(i, mode, input) ==
  [status |-> "running", entry |-> "validate", mode |-> mode, input |-> input,
   frame |-> NewFrame(input), k |-> 1, pending |-> <<>>, log |-> <<>>,
   overlap |-> \E j \in Invocations \ {i} : InFlight(j),
   result |-> NoResult, returned |-> Nothing,
   heap |-> <<>>, arg |-> Undef]

\* return { value, valid, errors }
ResultOf(frame) ==
  [value |-> frame.value, valid |-> Valid(frame.errors), errors |-> frame.errors]

Finished(i) == inv[i].status \in {"returned", "thrown"}

\* JavaScript runs a synchronous call to completion: nothing else runs
\* while a synchronous validate is on the stack.
NothingOnStack(i) ==
  \A j \in Invocations \ {i} :
    ~(inv[j].mode = "sync" /\ inv[j].status = "running")

\* formatError(error): the code, path, message and value it prints;
\* a field the record lacks prints as undefined.
FormatError(e) ==
  [code |-> e.code, path |-> e.path,
   message |-> IF "message" \in DOMAIN e THEN <<"str", e.message>> ELSE Undef,
   value |-> IF "value" \in DOMAIN e THEN e.value ELSE Undef]

\* A fault that carries the first error only.
CreateValidationErrorFirstOnly(errors) ==
  <<"ValidationError",
    [message |-> [found |-> Len(errors), lines |-> <<FormatError(Head(errors))>>],
     details |-> <<Head(errors)>>]>>

\* createValidationError(errors): the message is the count line followed
\* by one line per error; error.details = [...errors].
CreateValidationError(errors) ==
  <<"ValidationError",
    [message |-> [found |-> Len(errors),
                  lines |-> [n \in 1..Len(errors) |-> FormatError(errors[n])]],
     details |-> [n \in 1..Len(errors) |-> errors[n]]]>>

\* A test that reports whether validate produced a value.
TestReturnHasValue(result) == Returns(~IsUndef(result.value))

\* test: const { valid } = validate(input); return valid
TestReturn(result) == Returns(result.valid)

\* assert: if (!valid) throw createValidationError(errors)
\*         else return { valid, value }
AssertReturn(result) ==
  IF ~result.valid THEN Raises(CreateValidationError(result.errors))
  ELSE Returns([valid |-> result.valid, value |-> result.value])

\* What the entry point hands back once validate has returned result.
EntryReturn(entry, result) ==
  CASE entry = "validate" -> Returns(result)
    [] entry = "test"     -> TestReturn(result)
    [] entry = "assert"   -> AssertReturn(result)

---------------------------------------------------------------------------
(* The programs of the entry-point runs: argument lists that may hold      *)
(* values that are not functions.                                          *)

NonFns == {Num(0), Undef, Obj(NoProps)}

ApiLeaves ==
  {IsType("object"), IsType("number"), HasKeys(<<"a", "b">>),
   Fn("sync", <<SuccOp>>), Fn("sync", <<ErrOp>>),
   Fn("sync", <<ErrOp, DblOp>>), Fn("sync", <<ThrowOp>>)}

ApiSteps ==
  ApiLeaves
    \cup {Key("a", <<IsType("number")>>),
          Key("a", <<Fn("sync", <<SuccOp>>), Fn("sync", <<ReportOp>>)>>),
          Items(<<IsType("number"), Fn("sync", <<DblOp>>)>>),
          Schema(<<IsType("object"), Fn("sync", <<ErrOp>>)>>)}

ApiArgs ==
  {<<>>}
    \cup {<<x>> : x \in ApiSteps \cup NonFns}
    \cup {<<x, y>> : x \in ApiSteps \cup NonFns, y \in ApiLeaves \cup NonFns}
    \cup {<<Key("a", <<x, y>>)>> : x \in ApiLeaves \cup NonFns, y \in NonFns}
    \cup {<<Items(<<x>>)>> : x \in NonFns}
    \cup {<<Schema(<<x, y, z>>)>> :
            x \in {IsType("number")}, y \in ApiLeaves \cup NonFns, z \in NonFns}
    \cup {<<x, Key("a", <<Items(<<y>>)>>)>> : x \in NonFns, y \in NonFns}
    \cup {<<x, Items(<<IsType("number"), y>>)>> : x \in ApiLeaves, y \in NonFns}

ApiInputs ==
  {Undef, Num(0), Num(MaxNum), Obj(NoProps), Obj([a |-> Num(MaxNum)]),
   Obj([a |-> Num(0), b |-> Num(MaxNum)]), Arr(<<Num(0), Num(MaxNum)>>),
   Arr(<<Num(MaxNum), Obj(NoProps)>>)}

Init ==
  /\ fns \in Schemas
  /\ construction = Built
  /\ inv = [i \in Invocations |-> Idle]

InitAsync ==
  /\ fns \in AsyncSchemas
  /\ construction = Built
  /\ inv = [i \in Invocations |-> Idle]

\* The program text schema(...fns) has been written, not yet run.
InitApi ==
  /\ fns \in ApiArgs
  /\ construction = Pending
  /\ inv = [i \in Invocations |-> Idle]

Constructed(thrown) == IF thrown = NoFault THEN Built ELSE thrown

\* const MySchema = schema(...fns): returns the schema or throws.
Construct ==
  /\ construction = Pending
  /\ construction' = Constructed(Build(Schema(fns)))
  /\ UNCHANGED <<fns, inv>>

\* A synchronous entry point of the schema can be called once the schema
\* exists, by a caller that is not inside another call.
CanEnter(i) ==
  /\ construction = Built
  /\ inv[i].status = "idle" \/ Finished(i)
  /\ NothingOnStack(i)
  /\ IsSync(fns)

\* The entry point calls validate(input).
Entered(i, entry, input) == [Start(i, "sync", input) EXCEPT !.entry = entry]

\* MySchema.validate(input), with handlers that keep the synchronous contract.
Validate(i, input) ==
  /\ CanEnter(i)
  /\ inv' = [inv EXCEPT ![i] = Entered(i, "validate", input)]
  /\ UNCHANGED <<fns, construction>>

\* MySchema.test(input)
Test(i, input) ==
  /\ CanEnter(i)
  /\ inv' = [inv EXCEPT ![i] = Entered(i, "test", input)]
  /\ UNCHANGED <<fns, construction>>

\* MySchema.assert(input)
DoAssert(i, input) ==
  /\ CanEnter(i)
  /\ inv' = [inv EXCEPT ![i] = Entered(i, "assert", input)]
  /\ UNCHANGED <<fns, construction>>

\* The invocation after its handler k has made the calls of out and left
\* the frame: the loop goes on, or the fault leaves validate.
Called(rec, out, frame) ==
  [rec EXCEPT
     !.frame = frame,
     !.log = Append(@, [k |-> rec.k, value |-> rec.frame.value,
                        calls |-> out.calls, settled |-> TRUE]),
     !.k = IF frame.fault THEN @ ELSE Advance(fns, frame, @),
     !.status = IF frame.fault THEN "thrown" ELSE @,
     !.returned = IF frame.fault THEN Raises(frame.thrown) ELSE @]

CallStep(rec, out) == Called(rec, out, SyncStep(rec.frame, out))

\* for (const fn of functions) fn(value, update, error): one iteration.
CallFn(i) ==
  /\ inv[i].status = "running"
  /\ inv[i].mode = "sync"
  /\ inv[i].k <= Len(fns)
  /\ inv' = [inv EXCEPT
               ![i] = CallStep(@, Invoke(fns[inv[i].k], inv[i].frame.value))]
  /\ UNCHANGED <<fns, construction>>

\* The entry point hands back returned.
HandedBack(rec, result, returned) ==
  [rec EXCEPT
     !.status = IF returned[1] = "throw" THEN "thrown" ELSE "returned",
     !.result = result,
     !.returned = returned]

Handed(rec, result) == HandedBack(rec, result, EntryReturn(rec.entry, result))

\* The loop has ended: validate returns the result to the entry point.
Return(i) ==
  /\ inv[i].status = "running"
  /\ inv[i].mode = "sync"
  /\ inv[i].k > Len(fns)
  /\ inv' = [inv EXCEPT ![i] = Handed(@, ResultOf(inv[i].frame))]
  /\ UNCHANGED <<fns, construction>>

\* A pipeline that calls fn(value, update, error) without await: it goes on
\* to the next handler while the one before is still suspended.
AsyncRunNoAwait(rec) ==
  IF rec.k > Len(fns)
    THEN [rec EXCEPT !.status = "returned", !.result = ResultOf(rec.frame),
                     !.returned = Returns(ResultOf(rec.frame))]
    ELSE LET out == Invoke(fns[rec.k], rec.frame.value)
             frame == AsyncStep(rec.frame, out)
             first == [k |-> rec.k, value |-> rec.frame.value,
                       calls |-> out.calls, settled |-> frame.fault]
         IN IF frame.fault \/ rec.k = Len(fns)
              THEN [rec EXCEPT
                      !.frame = frame,
                      !.pending = out.late,
                      !.log = Append(@, first),
                      !.status = IF frame.fault THEN "thrown" ELSE "awaiting",
                      !.returned = IF frame.fault THEN Raises(frame.thrown) ELSE @]
              ELSE LET out2 == Invoke(fns[rec.k + 1], frame.value)
                       frame2 == AsyncStep(frame, out2)
                   IN [rec EXCEPT
                         !.frame = frame2,
                         !.pending = out.late \o out2.late,
                         !.log = @ \o <<first,
                                        [k |-> rec.k + 1, value |-> frame.value,
                                         calls |-> out2.calls,
                                         settled |-> frame2.fault]>>,
                         !.k = rec.k + 1,
                         !.status = IF frame2.fault THEN "thrown" ELSE "awaiting",
                         !.returned = IF frame2.fault THEN Raises(frame2.thrown) ELSE @]

\* await fn(value, update, error): the handler has made the calls of out
\* and returned; the run waits for what it returned, or rejects.
Awaiting(rec, out, frame) ==
  [rec EXCEPT
     !.frame = frame,
     !.pending = out.late,
     !.log = Append(@, [k |-> rec.k, value |-> rec.frame.value,
                        calls |-> out.calls, settled |-> frame.fault]),
     !.status = IF frame.fault THEN "thrown" ELSE "awaiting",
     !.returned = IF frame.fault THEN Raises(frame.thrown) ELSE @]

AwaitStep(rec, out) == Awaiting(rec, out, AsyncStep(rec.frame, out))

\* execValidationPipelineAsync runs on until its next await or its end:
\* it calls the next handler and suspends on what the handler returned (a
\* handler that throws rejects the run), or resolves with the result.
AsyncRun(rec) ==
  IF rec.k > Len(fns)
    THEN [rec EXCEPT !.status = "returned", !.result = ResultOf(rec.frame),
                     !.returned = Returns(ResultOf(rec.frame))]
    ELSE AwaitStep(rec, Invoke(fns[rec.k], rec.frame.value))

\* MySchema.validateAsync(input): runs up to the first await.
ValidateAsync(i, input) ==
  /\ construction = Built
  /\ inv[i].status = "idle" \/ Finished(i)
  /\ NothingOnStack(i)
  /\ inv' = [inv EXCEPT ![i] = AsyncRun(Start(i, "async", input))]
  /\ UNCHANGED <<fns, construction>>

\* The invocation once the promise it waited for has settled.
Settled(rec, frame) ==
  [rec EXCEPT
     !.frame = frame,
     !.pending = <<>>,
     !.log = [@ EXCEPT ![Len(@)].calls = @ \o rec.pending,
                       ![Len(@)].settled = TRUE],
     !.k = Advance(fns, frame, @),
     !.status = "running"]

\* The awaited handler finishes: the calls it made meanwhile have landed,
\* and the loop goes on to the next await.
Resume(i) ==
  /\ inv[i].status = "awaiting"
  /\ NothingOnStack(i)
  /\ inv' = [inv EXCEPT
               ![i] = AsyncRun(Settled(@, AwaitSettle(inv[i].frame, inv[i].pending)))]
  /\ UNCHANGED <<fns, construction>>

Next ==
  \/ \E input \in Inputs : Validate(Caller, input)
  \/ CallFn(Caller)
  \/ Return(Caller)

Spec == Init /\ [][Next]_vars

NextAsync ==
  \/ \E i \in Invocations, input \in AsyncInputs : Validate(i, input)
  \/ \E i \in Invocations : CallFn(i)
  \/ \E i \in Invocations : Return(i)
  \/ \E i \in Invocations, input \in AsyncInputs : ValidateAsync(i, input)
  \/ \E i \in Invocations : Resume(i)

SpecAsync == InitAsync /\ [][NextAsync]_vars

\* A program that builds a schema and then calls its synchronous entry
\* points, one call after the other.
NextApi ==
  \/ Construct
  \/ \E input \in ApiInputs : Validate(Caller, input)
  \/ \E input \in ApiInputs : Test(Caller, input)
  \/ \E input \in ApiInputs : DoAssert(Caller, input)
  \/ CallFn(Caller)
  \/ Return(Caller)

SpecApi == InitApi /\ [][NextApi]_vars

\* The argument lists and inputs of the runs on the heap.
HeapSchemas ==
  {<<h>> : h \in Handlers} \cup {<<h, g>> : h \in Combinators, g \in NestLeaves}

InitHeap ==
  /\ fns \in HeapSchemas
  /\ construction = Built
  /\ inv = [i \in Invocations |-> Idle]

\* MySchema.validate(input), the input being an object of the caller: the
\* caller holds arg, a reference to it.
HeapValidate(i, input) ==
  /\ CanEnter(i)
  /\ inv' = [inv EXCEPT
               ![i] = [Start(i, "sync", input) EXCEPT
                         !.frame = NewFrame(Load(<<>>, input).ref),
                         !.heap = Load(<<>>, input).heap,
                         !.arg = Load(<<>>, input).ref]]
  /\ UNCHANGED <<fns, construction>>

HeapCallStep(rec, out) == [CallStep(rec, out) EXCEPT !.heap = out.heap]

\* for (const fn of functions) fn(value, update, error): one iteration.
HeapCallFn(i) ==
  /\ inv[i].status = "running"
  /\ inv[i].k <= Len(fns)
  /\ inv' = [inv EXCEPT
               ![i] = HeapCallStep(@, HeapInvoke(inv[i].heap, fns[inv[i].k],
                                                 inv[i].frame.value))]
  /\ UNCHANGED <<fns, construction>>

NextHeap ==
  \/ \E input \in Inputs : HeapValidate(Caller, input)
  \/ HeapCallFn(Caller)
  \/ Return(Caller)

SpecHeap == InitHeap /\ [][NextHeap]_vars

---------------------------------------------------------------------------
(* Reading the log of an invocation *)

RECURSIVE LogCalls(_)
LogCalls(log) ==
  IF log = <<>> THEN <<>> ELSE LogCalls(SubSeq(log, 1, Len(log) - 1)) \o log[Len(log)].calls

\* The argument of the last update call among calls, or default.
RECURSIVE LastUpdate(_, _)
LastUpdate(calls, default) ==
  IF calls = <<>> THEN default
  ELSE IF IsUpdateCall(calls[Len(calls)]) THEN calls[Len(calls)][2]
  ELSE LastUpdate(SubSeq(calls, 1, Len(calls) - 1), default)

HasErrorCall(calls) == \E n \in 1..Len(calls) : IsErrorCall(calls[n])
HasUpdateCall(calls) == \E n \in 1..Len(calls) : IsUpdateCall(calls[n])

---------------------------------------------------------------------------
(* C1: in every result returned by validate or validateAsync, valid is     *)
(* true if and only if the errors list is empty; and when no handler of    *)
(* the list called error, valid is true and errors is empty.               *)

C1_ValidIffNoErrors ==
  \A i \in Invocations :
    inv[i].status = "returned" =>
      /\ inv[i].result.valid <=> (inv[i].result.errors = <<>>)
      /\ ~HasErrorCall(LogCalls(inv[i].log)) =>
           (inv[i].result.valid /\ inv[i].result.errors = <<>>)

\* A validateAsync result that is invalid beside a validate result that is valid.
C1_Witness ==
  \E i, j \in Invocations :
    /\ inv[i].status = "returned" /\ inv[i].mode = "async"
    /\ ~inv[i].result.valid /\ Len(inv[i].result.errors) >= 1
    /\ inv[j].status = "returned" /\ inv[j].mode = "sync"
    /\ inv[j].result.valid /\ inv[j].log # <<>>

---------------------------------------------------------------------------
(* C2: within one validate call each handler receives the argument of the  *)
(* most recent update call made by an earlier handler (the input if there  *)
(* was none), and the result's value is the argument of the last update    *)
(* call overall, whatever error calls were made before or after it.        *)

C2_ValueIsLastUpdate ==
  \A i \in Invocations :
    inv[i].mode = "sync" =>
      /\ \A n \in 1..Len(inv[i].log) :
           inv[i].log[n].value =
             LastUpdate(LogCalls(SubSeq(inv[i].log, 1, n - 1)), inv[i].input)
      /\ inv[i].status = "returned" =>
           inv[i].result.value = LastUpdate(LogCalls(inv[i].log), inv[i].input)

\* A returned run whose first handler reported an error and whose second
\* handler then both transformed the value and reported another error.
C2_Witness ==
  /\ inv[Caller].status = "returned"
  /\ Len(inv[Caller].log) = 2
  /\ HasErrorCall(inv[Caller].log[1].calls)
  /\ HasUpdateCall(inv[Caller].log[2].calls)
  /\ HasErrorCall(inv[Caller].log[2].calls)
  /\ inv[Caller].result.value # inv[Caller].input
  /\ ~inv[Caller].result.valid

---------------------------------------------------------------------------
(* C3: validate invokes every handler of the list exactly once, in list    *)
(* order, and an error call never keeps a later handler from running.      *)

C3_EveryHandlerOnceInOrder ==
  \A i \in Invocations :
    inv[i].mode = "sync" =>
      /\ \A n \in 1..Len(inv[i].log) : inv[i].log[n].k = n
      /\ inv[i].status = "running" => Len(inv[i].log) = inv[i].k - 1
      /\ inv[i].status = "returned" => Len(inv[i].log) = Len(fns)

\* A returned run whose first handler reported an error and whose second
\* handler ran all the same.
C3_Witness ==
  /\ inv[Caller].status = "returned"
  /\ Len(fns) >= 2
  /\ HasErrorCall(inv[Caller].log[1].calls)
  /\ inv[Caller].log[2].k = 2

---------------------------------------------------------------------------
(* Reading the log of an invocation: the entry of one handler *)

\* The record an error call leaves in the errors list.
RecordOf(c) == Spread([code |-> c[2], path |-> <<>>], c[3])

\* Number of errors reported before the n-th entry of the log.
ErrorsBefore(log, n) == Len(ErrorCalls(LogCalls(SubSeq(log, 1, n - 1))))

\* The n-th handler of invocation i has run to its end without throwing.
Completed(i, n) ==
  /\ n \in 1..Len(inv[i].log)
  /\ n < Len(inv[i].log) \/ inv[i].status # "thrown"

\* e with seg put in front of its path.
Prefixed(seg, e) == [e EXCEPT !.path = <<seg>> \o @]

RECURSIVE ConcatAll(_)
ConcatAll(seqs) ==
  IF seqs = <<>> THEN <<>> ELSE Head(seqs) \o ConcatAll(Tail(seqs))

---------------------------------------------------------------------------
(* C4: every error emitted by a handler nested in key(name, ...) appears   *)
(* in the outer result with path [name] followed by the path it had in the *)
(* nested pipeline; for key("a", key("b", h)) the path begins ["a", "b"].  *)

C4_KeyPrefixesPath ==
  \A i \in Invocations : \A n \in 1..Len(inv[i].log) :
    LET h == fns[inv[i].log[n].k]
        v == inv[i].log[n].value
    IN (inv[i].mode = "sync" /\ h[1] = "key" /\ Completed(i, n)) =>
         LET nested == ExecPipeline(h[3], GetProp(v, h[2]))
             off == ErrorsBefore(inv[i].log, n)
             errs == IF inv[i].status = "returned" THEN inv[i].result.errors
                     ELSE inv[i].frame.errors
         IN /\ Len(ErrorCalls(inv[i].log[n].calls)) = Len(nested.errors)
            /\ \A m \in 1..Len(nested.errors) :
                 /\ errs[off + m] = Prefixed(KeySeg(h[2]), nested.errors[m])
                 /\ Len(h[3]) = 1 /\ h[3][1][1] = "key" =>
                      SubSeq(errs[off + m].path, 1, 2)
                        = <<KeySeg(h[2]), KeySeg(h[3][1][2])>>

\* A returned result with an error whose path is exactly ["a", "b"].
C4_Witness ==
  /\ inv[Caller].status = "returned"
  /\ \E n \in 1..Len(fns) :
       /\ fns[n][1] = "key" /\ Len(fns[n][3]) = 1 /\ fns[n][3][1][1] = "key"
       /\ \E m \in 1..Len(inv[Caller].result.errors) :
            inv[Caller].result.errors[m].path = <<KeySeg("a"), KeySeg("b")>>

---------------------------------------------------------------------------
(* C5: every error the nested pipeline of items(...) emits for the element *)
(* at index i appears in the outer result with path [i] followed by its    *)
(* nested path, and the errors of index i precede those of any j > i.      *)

ItemErrorsExpected(ifns, elems) ==
  ConcatAll([x \in 1..Len(elems) |->
               LET errors == ExecPipeline(ifns, elems[x]).errors
               IN [m \in 1..Len(errors) |-> Prefixed(IdxSeg(x - 1), errors[m])]])

C5_ItemsPrefixIndex ==
  \A i \in Invocations : \A n \in 1..Len(inv[i].log) :
    LET h == fns[inv[i].log[n].k]
        v == inv[i].log[n].value
    IN (inv[i].mode = "sync" /\ h[1] = "items" /\ IsArr(v) /\ Completed(i, n)) =>
         LET expected == ItemErrorsExpected(h[2], v[2])
             off == ErrorsBefore(inv[i].log, n)
             errs == IF inv[i].status = "returned" THEN inv[i].result.errors
                     ELSE inv[i].frame.errors
         IN /\ Len(ErrorCalls(inv[i].log[n].calls)) = Len(expected)
            /\ SubSeq(errs, off + 1, off + Len(expected)) = expected

\* A returned result whose only error comes from the second element.
C5_Witness ==
  /\ inv[Caller].status = "returned"
  /\ fns = <<Items(<<IsType("number")>>)>>
  /\ IsArr(inv[Caller].input) /\ Len(inv[Caller].input[2]) = 2
  /\ Len(inv[Caller].result.errors) = 1
  /\ inv[Caller].result.errors[1].path = <<IdxSeg(1)>>
  /\ inv[Caller].result.errors[1].value = inv[Caller].input[2][2]

---------------------------------------------------------------------------
(* C6: when the nested pipeline of key(name, ...) produces r for           *)
(* value[name], the value forwarded to the outer pipeline is an object in  *)
(* which name is bound to r and every other key keeps its value.           *)

C6_KeyKeepsSiblings ==
  \A i \in Invocations : \A n \in 1..Len(inv[i].log) :
    LET h == fns[inv[i].log[n].k]
        v == inv[i].log[n].value
    IN (inv[i].mode = "sync" /\ h[1] = "key" /\ IsObj(v) /\ Completed(i, n)) =>
         LET nested == ExecPipeline(h[3], GetProp(v, h[2]))
             ups == UpdateCalls(inv[i].log[n].calls)
         IN /\ Len(ups) = 1
            /\ IsObj(ups[1][2])
            /\ DOMAIN ups[1][2][2] = (DOMAIN v[2]) \cup {h[2]}
            /\ ups[1][2][2][h[2]] = nested.value
            /\ \A key \in (DOMAIN v[2]) \ {h[2]} : ups[1][2][2][key] = v[2][key]
            /\ (n = Len(fns) /\ inv[i].status = "returned") =>
                 inv[i].result.value = ups[1][2]

\* A returned result in which key "a" was rebound and sibling "b" kept.
C6_Witness ==
  /\ inv[Caller].status = "returned"
  /\ Len(fns) = 1 /\ fns[1][1] = "key"
  /\ IsObj(inv[Caller].input)
  /\ DOMAIN inv[Caller].input[2] = {"a", "b"}
  /\ inv[Caller].result.value[2]["a"] # inv[Caller].input[2]["a"]
  /\ inv[Caller].result.value[2]["b"] = inv[Caller].input[2]["b"]

---------------------------------------------------------------------------
(* C7: for an input array of length n, items(...) yields an array whose    *)
(* element i is what the nested pipeline produces on the input's element   *)
(* i, for every i: earlier replacements are all kept, and no element is    *)
(* altered by the processing of another index.                             *)

C7_ItemsMapsElements ==
  \A i \in Invocations : \A n \in 1..Len(inv[i].log) :
    LET h == fns[inv[i].log[n].k]
        v == inv[i].log[n].value
    IN (inv[i].mode = "sync" /\ h[1] = "items" /\ IsArr(v) /\ Completed(i, n)) =>
         LET expected == Arr([x \in 1..Len(v[2]) |-> ExecPipeline(h[2], v[2][x]).value])
             yielded == LastUpdate(inv[i].log[n].calls, v)
         IN /\ yielded = expected
            /\ Len(UpdateCalls(inv[i].log[n].calls)) = Len(v[2])
            /\ (n = Len(fns) /\ inv[i].status = "returned") =>
                 inv[i].result.value = expected

\* A returned result in which both elements of a two-element array changed.
C7_Witness ==
  /\ inv[Caller].status = "returned"
  /\ Len(fns) = 1 /\ fns[1][1] = "items"
  /\ IsArr(inv[Caller].input) /\ Len(inv[Caller].input[2]) = 2
  /\ IsArr(inv[Caller].result.value) /\ Len(inv[Caller].result.value[2]) = 2
  /\ \A x \in 1..2 :
       /\ IsNum(inv[Caller].input[2][x])
       /\ inv[Caller].result.value[2][x] # inv[Caller].input[2][x]

---------------------------------------------------------------------------
(* C8: a schema used as a handler forwards every error of its pipeline to  *)
(* the caller's error callback with the same code, path and context, in    *)
(* order, and its final value to the caller's update; so                   *)
(* schema(a, schema(b, c), d).validate(x) returns what                     *)
(* schema(a, b, c, d).validate(x) returns.                                 *)

\* The handler list with every schema(...) argument replaced by its handlers.
RECURSIVE Flatten(_)
Flatten(functions) ==
  IF functions = <<>> THEN <<>>
  ELSE (IF Head(functions)[1] = "schema" THEN Flatten(Head(functions)[2])
        ELSE <<Head(functions)>>)
       \o Flatten(Tail(functions))

C8_NestedSchemaIsInlined ==
  \A i \in Invocations :
    inv[i].mode = "sync" =>
      /\ \A n \in 1..Len(inv[i].log) :
           LET h == fns[inv[i].log[n].k]
               calls == inv[i].log[n].calls
           IN (h[1] = "schema" /\ Completed(i, n)) =>
                LET nested == ExecPipeline(h[2], inv[i].log[n].value)
                IN /\ Len(calls) = Len(nested.errors) + 1
                   /\ \A m \in 1..Len(nested.errors) :
                        IsErrorCall(calls[m]) /\ RecordOf(calls[m]) = nested.errors[m]
                   /\ calls[Len(calls)] = Update(nested.value)
      /\ inv[i].status = "returned" =>
           LET flat == ExecPipeline(Flatten(fns), inv[i].input)
           IN ~flat.fault /\ inv[i].result = ResultOf(flat)
      /\ inv[i].status = "thrown" => ExecPipeline(Flatten(fns), inv[i].input).fault

\* schema(a, schema(b, c), d) has returned a transformed value and errors
\* that came out of the nested schema.
C8_Witness ==
  /\ inv[Caller].status = "returned"
  /\ Len(fns) = 3 /\ fns[2][1] = "schema" /\ Len(fns[2][2]) = 2
  /\ HasErrorCall(inv[Caller].log[2].calls)
  /\ inv[Caller].log[2].value # LastUpdate(inv[Caller].log[2].calls, Undef)
  /\ inv[Caller].result.value # inv[Caller].input

---------------------------------------------------------------------------
(* C9: validateAsync on a schema whose leaf handlers are asynchronous      *)
(* resolves to what validate returns for the same schema with synchronous  *)
(* versions of those handlers, also when the leaf handlers are nested in   *)
(* key, items or a nested schema.                                          *)

C9_AsyncAgreesWithSync ==
  \A i \in Invocations :
    (inv[i].mode = "async" /\ inv[i].status = "returned") =>
      LET sync == ExecPipeline(SyncVersions(fns), inv[i].input)
      IN ~sync.fault /\ inv[i].result = ResultOf(sync)

---------------------------------------------------------------------------
(* C10: a schema built once may be invoked any number of times, one after  *)
(* the other or with validateAsync invocations interleaved; each           *)
(* invocation's result is the result of running it alone on its input, and *)
(* two invocations of the same kind on the same input return the same.     *)

Alone(mode, input) ==
  IF mode = "sync" THEN ExecPipeline(fns, input) ELSE ExecPipelineAsync(fns, input)

C10_InvocationsIsolated ==
  /\ \A i \in Invocations :
       /\ inv[i].status = "returned" =>
            LET alone == Alone(inv[i].mode, inv[i].input)
            IN ~alone.fault /\ inv[i].result = ResultOf(alone)
       /\ inv[i].status = "thrown" => Alone(inv[i].mode, inv[i].input).fault
  /\ \A i, j \in Invocations :
       (/\ inv[i].status = "returned" /\ inv[j].status = "returned"
        /\ inv[i].mode = inv[j].mode /\ inv[i].input = inv[j].input) =>
         inv[i].result = inv[j].result

\* Two validateAsync invocations on different inputs, one begun while the
\* other was in flight, have both returned errors.
C10_Witness ==
  \E i, j \in Invocations :
    /\ i # j
    /\ inv[i].status = "returned" /\ inv[j].status = "returned"
    /\ inv[i].mode = "async" /\ inv[j].mode = "async"
    /\ inv[j].overlap
    /\ inv[i].input # inv[j].input
    /\ inv[i].result.errors # <<>> /\ inv[j].result.errors # <<>>
    /\ inv[i].result # inv[j].result

---------------------------------------------------------------------------
(* C11: every error record of a result returned by validate has its code,  *)
(* path and message fields populated.                                      *)

Populated(e, field) == field \in DOMAIN e

C11_ErrorsPopulated ==
  inv[Caller].status = "returned" =>
    \A m \in 1..Len(inv[Caller].result.errors) :
      /\ Populated(inv[Caller].result.errors[m], "code")
      /\ Populated(inv[Caller].result.errors[m], "path")
      /\ Populated(inv[Caller].result.errors[m], "message")

(* C11 as amended: every error record of a result returned by validate has *)
(* the code the handler passed and a path; it has a message exactly when   *)
(* the handler's context object carried one, and then that message.        *)

C11_CodeAndPathPopulated ==
  inv[Caller].status = "returned" =>
    /\ Len(inv[Caller].result.errors) = Len(inv[Caller].frame.leaf)
    /\ \A m \in 1..Len(inv[Caller].result.errors) :
         /\ Populated(inv[Caller].result.errors[m], "code")
         /\ inv[Caller].result.errors[m].code = inv[Caller].frame.leaf[m][2]
         /\ inv[Caller].result.errors[m].code # ""
         /\ Populated(inv[Caller].result.errors[m], "path")
         /\ inv[Caller].result.errors[m].path \in Seq({KeySeg("a"), KeySeg("b")}
              \cup {IdxSeg(x) : x \in 0..MaxLen})
         /\ Populated(inv[Caller].result.errors[m], "message")
              <=> Populated(inv[Caller].frame.leaf[m][3], "message")
         /\ Populated(inv[Caller].result.errors[m], "message") =>
              inv[Caller].result.errors[m].message
                = inv[Caller].frame.leaf[m][3].message

\* A returned result with one error that has a message and, after it, one
\* that came through key("a", ...) and has none.
C11_Witness ==
  /\ inv[Caller].status = "returned"
  /\ Len(inv[Caller].result.errors) = 2
  /\ Populated(inv[Caller].result.errors[1], "message")
  /\ ~Populated(inv[Caller].result.errors[2], "message")
  /\ inv[Caller].result.errors[2].path = <<KeySeg("a")>>

---------------------------------------------------------------------------
(* C12: the entry points of a schema agree on validity for every input:    *)
(* test(input) returns exactly validate(input).valid, and assert(input)    *)
(* throws a ValidationError if and only if test(input) is false; when a    *)
(* handler throws, each of them lets that fault through.                   *)

IsValidationError(returned) ==
  returned[1] = "throw" /\ returned[2][1] = "ValidationError"

\* What the finished entry-point call rec handed back, against the result r
\* of validate on the same input.
AgreesWith(rec, r) ==
  IF r.fault THEN rec.status = "thrown" /\ rec.returned = Raises(r.thrown)
  ELSE CASE rec.entry = "validate" ->
              /\ rec.status = "returned"
              /\ rec.returned[1] = "return"
              /\ rec.returned[2].valid = r.valid
         [] rec.entry = "test" ->
              /\ rec.status = "returned"
              /\ rec.returned = Returns(r.valid)
         [] rec.entry = "assert" ->
              /\ IsValidationError(rec.returned) <=> ~r.valid
              /\ (rec.status = "thrown") <=> ~r.valid
              /\ (rec.returned[1] = "return") <=> r.valid

C12_EntryPointsAgree ==
  Finished(Caller) =>
    AgreesWith(inv[Caller], ExecPipeline(fns, inv[Caller].input))

\* assert has thrown a ValidationError on an input that went through two
\* handlers, one of which transformed it.
C12_Witness ==
  /\ inv[Caller].entry = "assert"
  /\ inv[Caller].status = "thrown"
  /\ IsValidationError(inv[Caller].returned)
  /\ Len(inv[Caller].log) = 2
  /\ inv[Caller].frame.value # inv[Caller].input

---------------------------------------------------------------------------
(* C13: when validation produces N >= 1 errors, assert raises one          *)
(* ValidationError whose details is the complete error list, all N records *)
(* in the order validate reports them; when validation produces no errors, *)
(* assert returns {valid: true, value} with the value validate returns.    *)

\* What the finished assert call rec handed back, against the result r of
\* validate on the same input.
AssertBundles(rec, r) ==
  IF Len(r.errors) >= 1
    THEN /\ rec.status = "thrown"
         /\ IsValidationError(rec.returned)
         /\ rec.returned[2][2].details = r.errors
         /\ Len(rec.returned[2][2].details) = Len(r.errors)
         /\ rec.returned[2][2].message.found = Len(r.errors)
    ELSE /\ rec.status = "returned"
         /\ rec.returned = Returns([valid |-> TRUE, value |-> r.value])

C13_AssertBundlesErrors ==
  (Finished(Caller) /\ inv[Caller].entry = "assert"
     /\ ~ExecPipeline(fns, inv[Caller].input).fault) =>
    AssertBundles(inv[Caller], ExecPipeline(fns, inv[Caller].input))

\* assert has thrown one ValidationError that carries two different error
\* records, reported by two handlers.
C13_Witness ==
  /\ inv[Caller].entry = "assert"
  /\ inv[Caller].status = "thrown"
  /\ IsValidationError(inv[Caller].returned)
  /\ Len(inv[Caller].returned[2][2].details) = 2
  /\ inv[Caller].returned[2][2].details[1] # inv[Caller].returned[2][2].details[2]
  /\ Len(inv[Caller].log) = 2
  /\ HasErrorCall(inv[Caller].log[1].calls)
  /\ HasErrorCall(inv[Caller].log[2].calls)

---------------------------------------------------------------------------
(* C14: schema(...), key(name, ...) and items(...) fail at construction,   *)
(* before any handler is invoked, with a TypeError whenever a supplied     *)
(* step is not a function; the fault names the position (counted from 0    *)
(* among the steps) and the value of the first offending step of the       *)
(* combinator that failed; a combinator all of whose steps are functions   *)
(* never fails at construction.                                            *)

\* Every step of x, and of the combinators written inside x, is a function.
RECURSIVE AllFunctions(_)
AllFunctions(x) ==
  \A n \in 1..Len(StepsOf(x)) :
    IsFn(StepsOf(x)[n]) /\ AllFunctions(StepsOf(x)[n])

\* The combinator calls written in x, x included.
RECURSIVE CombinatorsIn(_)
CombinatorsIn(x) ==
  (IF IsCombinator(x) THEN {x} ELSE {})
    \cup UNION {CombinatorsIn(StepsOf(x)[n]) : n \in 1..Len(StepsOf(x))}

\* thrown names the first step of c that is not a function.
NamesFirstOffender(thrown, c) ==
  \E n \in 1..Len(StepsOf(c)) :
    /\ ~IsFn(StepsOf(c)[n])
    /\ \A m \in 1..(n - 1) : IsFn(StepsOf(c)[m])
    /\ thrown = NotAFunction(n - 1, StepsOf(c)[n])

NeverInvoked == \A i \in Invocations : inv[i] = Idle

C14_ConstructionChecksSteps ==
  /\ construction = Pending => NeverInvoked
  /\ construction # Pending =>
       /\ (construction = Built) <=> AllFunctions(Schema(fns))
       /\ construction # Built =>
            /\ construction[1] = "TypeError"
            /\ \E c \in CombinatorsIn(Schema(fns)) :
                 NamesFirstOffender(construction, c)
            /\ AllFunctions(Schema(SelectSeq(fns, IsFn))) =>
                 NamesFirstOffender(construction, Schema(fns))
            /\ NeverInvoked

\* schema(schema(f, x, y)) with x and y not functions has failed naming
\* index 1 and x.
C14_Witness ==
  /\ construction # Pending /\ construction # Built
  /\ Len(fns) = 1 /\ fns[1][1] = "schema" /\ Len(fns[1][2]) = 3
  /\ ~IsFn(fns[1][2][2]) /\ ~IsFn(fns[1][2][3])
  /\ fns[1][2][2] # fns[1][2][3]
  /\ construction = NotAFunction(1, fns[1][2][2])
  /\ NeverInvoked

---------------------------------------------------------------------------
(* C15: if a handler throws during validate, at top level or nested in     *)
(* key, items or a nested schema, the fault reaches the caller of validate *)
(* unchanged: no result object is returned, no later handler is invoked,   *)
(* and the fault is never turned into a validation error.                  *)

RECURSIVE HandlerFault(_, _)
RECURSIVE ListFault(_, _)

\* The handlers of the list that throw on the value that reaches them.
Throwers(functions, value) ==
  {k \in 1..Len(functions) :
     HandlerFault(functions[k],
                  ExecPipeline(SubSeq(functions, 1, k - 1), value).value) # NoFault}

\* What the first handler of the list that throws raises, or NoFault.
ListFault(functions, value) ==
  IF Throwers(functions, value) = {} THEN NoFault
  ELSE HandlerFault(
         functions[CHOOSE k \in Throwers(functions, value) :
                     \A j \in Throwers(functions, value) : k <= j],
         ExecPipeline(
           SubSeq(functions, 1,
                  (CHOOSE k \in Throwers(functions, value) :
                     \A j \in Throwers(functions, value) : k <= j) - 1),
           value).value)

\* The elements of an array on which the nested list throws.
ThrowingItems(ifns, value) ==
  {x \in 1..Len(value[2]) : ListFault(ifns, value[2][x]) # NoFault}

\* What the handler fn raises when it is given value, or NoFault.
HandlerFault(fn, value) ==
  CASE fn[1] = "fn"      -> ScriptThrown(fn[3])
    [] fn[1] = "isType"  -> NoFault
    [] fn[1] = "hasKeys" ->
         IF fn[2] # <<>> /\ (IsUndef(value) \/ IsNum(value))
           THEN InOfPrimitive(fn[2][1]) ELSE NoFault
    [] fn[1] = "schema"  -> ListFault(fn[2], value)
    [] fn[1] = "key"     ->
         IF IsUndef(value) THEN ReadOfUndefined(fn[2])
         ELSE ListFault(fn[3], GetProp(value, fn[2]))
    [] fn[1] = "items"   ->
         IF IsUndef(value) THEN ReadOfUndefined("length")
         ELSE IF ~IsArr(value) \/ ThrowingItems(fn[2], value) = {} THEN NoFault
         ELSE ListFault(fn[2],
                        value[2][CHOOSE x \in ThrowingItems(fn[2], value) :
                                   \A y \in ThrowingItems(fn[2], value) : x <= y])

\* The records the error calls of the log leave, in order.
LoggedErrors(log) ==
  [m \in 1..Len(ErrorCalls(LogCalls(log))) |-> RecordOf(ErrorCalls(LogCalls(log))[m])]

C15_FaultPropagates ==
  /\ inv[Caller].status = "returned" => ListFault(fns, inv[Caller].input) = NoFault
  /\ inv[Caller].status = "thrown" =>
       /\ inv[Caller].returned = Raises(ListFault(fns, inv[Caller].input))
       /\ inv[Caller].returned[2] # NoFault
       /\ inv[Caller].result = NoResult
       /\ Len(inv[Caller].log) = inv[Caller].k
       /\ inv[Caller].k <= Len(fns)
       /\ HandlerFault(fns[inv[Caller].k],
                       inv[Caller].log[inv[Caller].k].value) # NoFault
       /\ inv[Caller].frame.errors = LoggedErrors(inv[Caller].log)
       /\ \A m \in 1..Len(inv[Caller].frame.errors) :
            inv[Caller].frame.errors[m].code \in {"custom", "bare", "is.type", "key.missing"}

\* validate has thrown out of the second element of an items handler, after
\* the first element had reported an error, and the handler after items
\* has not run.
C15_Witness ==
  /\ inv[Caller].status = "thrown"
  /\ Len(fns) = 2 /\ fns[1][1] = "items"
  /\ Len(inv[Caller].log) = 1
  /\ Len(inv[Caller].frame.errors) = 1
  /\ inv[Caller].frame.errors[1].path = <<IdxSeg(0)>>
  /\ inv[Caller].returned = Raises(InOfPrimitive("a"))

---------------------------------------------------------------------------
(* C16: in validateAsync, handler k+1 of the schema's own handler list is  *)
(* not invoked until the promise returned by handler k has settled: at     *)
(* most one of these handlers is in flight at any time, and they run in    *)
(* list order however long each one stays suspended.                       *)

\* The handlers of the log whose promise has not settled.
Unsettled(log) == {n \in 1..Len(log) : ~log[n].settled}

C16_AwaitsEachHandler ==
  \A i \in Invocations :
    inv[i].mode = "async" =>
      /\ \A n \in 1..Len(inv[i].log) : inv[i].log[n].k = n
      /\ \A n \in 1..(Len(inv[i].log) - 1) : inv[i].log[n].settled
      /\ Cardinality(Unsettled(inv[i].log)) <= 1
      /\ inv[i].status = "awaiting" =>
           /\ Len(inv[i].log) = inv[i].k
           /\ Unsettled(inv[i].log) = {inv[i].k}
      /\ inv[i].status = "returned" =>
           /\ Len(inv[i].log) = Len(fns)
           /\ Unsettled(inv[i].log) = {}

\* A validateAsync run of two suspending handlers has returned, the second
\* handler having seen the first one's update, while another invocation
\* began and ended during its suspensions.
C16_Witness ==
  \E i, j \in Invocations :
    /\ i # j
    /\ inv[i].mode = "async" /\ inv[i].status = "returned"
    /\ Len(inv[i].log) = 2
    /\ HasUpdateCall(inv[i].log[1].calls)
    /\ inv[i].log[2].value # inv[i].input
    /\ inv[i].log[2].calls # <<>>
    /\ inv[j].overlap /\ Finished(j)
    /\ ~inv[i].overlap

---------------------------------------------------------------------------
(* C17: if no leaf handler anywhere in a schema calls update, the value    *)
(* returned by validate is equal to the input, whatever the input's shape, *)
(* also for an object that lacks the key named by a key combinator.        *)

\* No leaf handler written in fn has an update statement.
RECURSIVE NoUpdates(_)
NoUpdates(fn) ==
  CASE fn[1] = "fn" -> \A n \in 1..Len(fn[3]) : fn[3][n][1] # "update"
    [] IsCombinator(fn) -> \A n \in 1..Len(StepsOf(fn)) : NoUpdates(StepsOf(fn)[n])
    [] OTHER -> TRUE

C17_NoUpdateKeepsInput ==
  (inv[Caller].status = "returned" /\ NoUpdates(Schema(fns))) =>
    inv[Caller].result.value = inv[Caller].input

(* C17 as amended: if no leaf handler anywhere in a schema calls update,   *)
(* and every key combinator is applied to an object that has the key it    *)
(* names, the value returned by validate is equal to the input.            *)

\* Every key combinator written in fn finds its key when fn is given value.
RECURSIVE KeysPresent(_, _)
KeysPresent(fn, value) ==
  CASE fn[1] = "key" ->
         /\ HasProp(value, fn[2])
         /\ \A n \in 1..Len(fn[3]) : KeysPresent(fn[3][n], GetProp(value, fn[2]))
    [] fn[1] = "items" ->
         IsArr(value) =>
           \A x \in 1..Len(value[2]), n \in 1..Len(fn[2]) :
             KeysPresent(fn[2][n], value[2][x])
    [] fn[1] = "schema" -> \A n \in 1..Len(fn[2]) : KeysPresent(fn[2][n], value)
    [] OTHER -> TRUE

C17_NoUpdateKeepsInputWithKeys ==
  (/\ inv[Caller].status = "returned"
   /\ NoUpdates(Schema(fns))
   /\ KeysPresent(Schema(fns), inv[Caller].input)) =>
    inv[Caller].result.value = inv[Caller].input

\* key("a", items(...)) has returned its input, an object with an array of
\* two numbers under "a" and a sibling key, after items had handed on two
\* copies of the array.
C17_Witness ==
  /\ inv[Caller].status = "returned"
  /\ NoUpdates(Schema(fns))
  /\ Len(fns) = 1 /\ fns[1][1] = "key"
  /\ Len(fns[1][3]) = 1 /\ fns[1][3][1][1] = "items"
  /\ IsObj(inv[Caller].input)
  /\ DOMAIN inv[Caller].input[2] = {"a", "b"}
  /\ IsArr(inv[Caller].input[2]["a"])
  /\ Len(inv[Caller].input[2]["a"][2]) = 2
  /\ Len(UpdateCalls(inv[Caller].log[1].calls)) = 1
  /\ inv[Caller].result.errors # <<>>
  /\ inv[Caller].result.value = inv[Caller].input

---------------------------------------------------------------------------
(* C18: for an input array of length n the items handler ends after n runs *)
(* of its nested pipeline, one per index in ascending order 0..n-1: no     *)
(* nested handler changes the length of the array under iteration, and the *)
(* output array has length n.  Each run of the nested schema ends with one *)
(* update, so the updates of the items handler count its runs.             *)

\* The array the m-th run of the nested pipeline started from.
ItemsBefore(v, ups, m) == IF m = 1 THEN v[2] ELSE ups[m - 1][2][2]

\* ups are the updates of an items handler that was given the array v:
\* one per index, in ascending order, each an array of v's length that
\* differs from the one before in the slot of its index at most.
OnePerIndex(v, ups) ==
  /\ Len(ups) = Len(v[2])
  /\ \A m \in 1..Len(ups) :
       /\ IsArr(ups[m][2])
       /\ Len(ups[m][2][2]) = Len(v[2])
       /\ \A x \in 1..Len(v[2]) :
            x # m => ups[m][2][2][x] = ItemsBefore(v, ups, m)[x]

\* errs are the errors of an items handler that was given the array v:
\* their indices are indices of v and never go down.
IndicesAscend(v, errs) ==
  /\ \A a \in 1..Len(errs) :
       /\ errs[a][3].path[1][1] = "i"
       /\ errs[a][3].path[1][2] \in 0..(Len(v[2]) - 1)
  /\ \A a, b \in 1..Len(errs) :
       a < b => errs[a][3].path[1][2] <= errs[b][3].path[1][2]

C18_ItemsRunsOncePerIndex ==
  \A n \in 1..Len(inv[Caller].log) :
    (/\ fns[inv[Caller].log[n].k][1] = "items"
     /\ IsArr(inv[Caller].log[n].value)
     /\ Completed(Caller, n)) =>
      /\ OnePerIndex(inv[Caller].log[n].value,
                     UpdateCalls(inv[Caller].log[n].calls))
      /\ IndicesAscend(inv[Caller].log[n].value,
                       ErrorCalls(inv[Caller].log[n].calls))
      /\ IsArr(LastUpdate(inv[Caller].log[n].calls, inv[Caller].log[n].value))
      /\ Len(LastUpdate(inv[Caller].log[n].calls, inv[Caller].log[n].value)[2])
           = Len(inv[Caller].log[n].value[2])

\* items(...) has returned from an array of the greatest length, every
\* element replaced and every element reported, in index order.
C18_Witness ==
  /\ inv[Caller].status = "returned"
  /\ Len(fns) = 1 /\ fns[1][1] = "items"
  /\ IsArr(inv[Caller].input) /\ Len(inv[Caller].input[2]) = MaxLen
  /\ Len(UpdateCalls(inv[Caller].log[1].calls)) = MaxLen
  /\ Len(inv[Caller].result.errors) = MaxLen
  /\ \A x \in 1..MaxLen :
       /\ inv[Caller].result.errors[x].path = <<IdxSeg(x - 1)>>
       /\ inv[Caller].result.value[2][x] # inv[Caller].input[2][x]
  /\ Len(inv[Caller].result.value[2]) = MaxLen

---------------------------------------------------------------------------
(* C19: validate never modifies the object or array the caller passed in:  *)
(* every replacement key or items makes goes to a fresh shallow copy, so   *)
(* while validate runs and after it has returned or thrown, the caller's   *)
(* reference still leads to the keys, elements and values it led to before *)
(* the call, even when the value validate returns is different.            *)

\* The invocation has been given the caller's object.
HasArg(rec) == rec.status # "idle"

\* What the caller finds behind its reference now.
CallerSees(rec) == Deref(rec.heap, rec.arg)

C19_InputNotModified ==
  \A i \in Invocations : HasArg(inv[i]) => CallerSees(inv[i]) = inv[i].input

\* validate has returned another object than the one it was given, with
\* other contents, and the caller's object is as it was.
C19_Witness ==
  /\ inv[Caller].status = "returned"
  /\ IsRef(inv[Caller].arg)
  /\ IsRef(inv[Caller].result.value)
  /\ inv[Caller].result.value # inv[Caller].arg
  /\ Deref(inv[Caller].heap, inv[Caller].result.value) # inv[Caller].input
  /\ CallerSees(inv[Caller]) = inv[Caller].input

---------------------------------------------------------------------------
(* C20: in synchronous validate the errors of the result hold exactly one  *)
(* record for each error call a leaf handler made during the invocation,   *)
(* in the order the calls were made (depth first): passing through key,    *)
(* items or a nested schema, to any depth, drops, duplicates or reorders   *)
(* no error.                                                               *)

\* The record e is what the error call c of a leaf handler has become: its
\* code and every field of its context, the path aside.
RecordOfCall(e, c) ==
  /\ e.code = c[2]
  /\ \A f \in (DOMAIN c[3]) \ {"path"} : f \in DOMAIN e /\ e[f] = c[3][f]

\* The errors are the records of the calls, one each, in their order.
OneEach(errors, leaf) ==
  /\ Len(errors) = Len(leaf)
  /\ \A m \in 1..Len(errors) : RecordOfCall(errors[m], leaf[m])

C20_ErrorsAreLeafCalls ==
  \A i \in Invocations :
    (inv[i].status = "returned" /\ inv[i].mode = "sync")
      => OneEach(inv[i].result.errors, inv[i].frame.leaf)

\* A result with errors of different codes, one from two levels down and
\* one from a handler of the schema itself.
C20_Witness ==
  /\ inv[Caller].status = "returned"
  /\ \E m, n \in 1..Len(inv[Caller].result.errors) :
       /\ inv[Caller].result.errors[m].code # inv[Caller].result.errors[n].code
       /\ Len(inv[Caller].result.errors[m].path) >= 2
       /\ inv[Caller].result.errors[n].path = <<>>
  /\ OneEach(inv[Caller].result.errors, inv[Caller].frame.leaf)

====
